---- MODULE Spec2Model ----
(***************************************************************************)
(* A model of decoding_json.c, a PostgreSQL logical-decoding output plugin *)
(* that renders transaction boundaries and row changes as JSON-shaped     *)
(* text.                                                                   *)
(*                                                                         *)
(* Text is a sequence of fragments.  A fixed literal of the source (a     *)
(* format string's constant part, a string constant) is one fragment; a   *)
(* text that varies (a type's output string, a formatted number) is one   *)
(* fragment per character.  The concatenation of the fragments is the     *)
(* byte string the plugin builds in ctx->out.                              *)
(***************************************************************************)
EXTENDS Integers, Sequences, FiniteSets, TLC

\* ------------------------------------------------------------------ bounds

\* Longest output string of a type's output function that is enumerated.
MaxLen == 2
\* Largest number of attributes of a tuple descriptor that is enumerated.
MaxAtts == 2
\* Largest number of callbacks the host makes on one stream.
MaxEvents == 4

\* ------------------------------------------------------- print_literal

\* The characters output strings are built from: a letter, the boolean
\* texts, a digit, the two quote characters and the backslash.
Chars == {"a", "t", "f", "1", "\"", "'", "\\"}

RECURSIVE StringsUpTo(_)
StringsUpTo(n) ==
    IF n = 0 THEN {<<>>}
    ELSE LET shorter == StringsUpTo(n - 1)
         IN  shorter \cup {Append(s, c) : s \in {x \in shorter : Len(x) = n - 1}, c \in Chars}

\* The type identifiers the switch of print_literal names, and three it
\* does not name (they take the default branch).
NumericOids == {"INT2OID", "INT4OID", "INT8OID", "OIDOID", "FLOAT4OID", "FLOAT8OID", "NUMERICOID"}
BitOids == {"BITOID", "VARBITOID"}
OtherOids == {"TEXTOID", "JSONOID", "TIMESTAMPOID"}
TypeOids == NumericOids \cup BitOids \cup {"BOOLOID"} \cup OtherOids

\* SQL_STR_DOUBLE(ch, escape_backslash) of c.h: the single quote, and the
\* backslash when escape_backslash is set.
SQL_STR_DOUBLE(ch, escape_backslash) ==
    ch = "'" \/ (ch = "\\" /\ escape_backslash)

\* The loop of the default branch: a character SQL_STR_DOUBLE selects is
\* appended twice, every other character once.
RECURSIVE QuoteLoop(_)
QuoteLoop(valptr) ==
    IF valptr = <<>> THEN <<>>
    ELSE LET ch == Head(valptr)
         IN  (IF SQL_STR_DOUBLE(ch, FALSE) THEN <<ch>> ELSE <<>>)
             \o <<ch>> \o QuoteLoop(Tail(valptr))

BoolLiteralInverted(outputstr) ==
    IF outputstr # <<"t">> THEN <<"true">> ELSE <<"false">>

\* case BOOLOID: strcmp(outputstr, "t") == 0 selects true, anything else false.
BoolLiteral(outputstr) ==
    IF outputstr = <<"t">> THEN <<"true">> ELSE <<"false">>

\* print_literal: what it appends to s for a type and its output string.
print_literal(typid, outputstr) ==
    CASE typid \in NumericOids -> outputstr
      [] typid \in BitOids     -> <<"\"B'">> \o outputstr \o <<"'\"">>
      [] typid = "BOOLOID"     -> BoolLiteral(outputstr)
      [] OTHER                 -> <<"\"">> \o QuoteLoop(outputstr) \o <<"\"">>

\* ------------------------------------------------- transaction identifiers

\* A TransactionId is an unsigned 32-bit integer.  It is kept as two 16-bit
\* halves <<hi, lo>>, value hi * 65536 + lo, so that every value of the
\* type, the largest included, is represented exactly.
Xids == { <<0, 0>>, <<0, 7>>, <<0, 65535>>, <<32768, 0>>, <<65535, 65535>> }

DigitChar(d) == <<"0", "1", "2", "3", "4", "5", "6", "7", "8", "9">>[d + 1]

\* Quotient and remainder of a 32-bit value by ten, by long division.
DivTen(x) == << x[1] \div 10, ((x[1] % 10) * 65536 + x[2]) \div 10 >>
ModTen(x) == ((x[1] % 10) * 65536 + x[2]) % 10

RECURSIVE UnsignedDigits(_)
UnsignedDigits(x) ==
    IF DivTen(x) = <<0, 0>> THEN <<DigitChar(ModTen(x))>>
    ELSE UnsignedDigits(DivTen(x)) \o <<DigitChar(ModTen(x))>>

\* Two's-complement negation of a 32-bit value.
Negate32(x) ==
    << (65535 - x[1] + (IF x[2] = 0 THEN 1 ELSE 0)) % 65536, (65536 - x[2]) % 65536 >>

\* What "%d" would print: the value read as a signed 32-bit integer.
FormatSigned(x) ==
    IF x[1] >= 32768 THEN <<"-">> \o UnsignedDigits(Negate32(x)) ELSE UnsignedDigits(x)

\* The "%u" conversion of appendStringInfo applied to txn->xid.
FormatXid(x) == UnsignedDigits(x)

\* The object pg_output_begin builds.
BeginText(xid) ==
    <<"{\"type\":\"transaction.begin\",\"xid\":\"">> \o FormatXid(xid) \o <<"\"}">>

\* The object pg_decode_commit_txn builds.
CommitText(xid) ==
    <<"{\"type\":\"transaction.commit\",\"xid\":\"">> \o FormatXid(xid) \o <<"\"}">>

\* ------------------------------------------------------------ row images

\* The name of the attribute at a position of a tuple descriptor.
ColName(i) == <<"c1", "c2", "c3", "c4">>[i]

\* typisvarlena as getTypeOutputInfo reports it: the types of variable
\* length (typlen = -1 in the catalog).
TypIsVarlena(typid) ==
    typid \in {"NUMERICOID", "BITOID", "VARBITOID", "TEXTOID", "JSONOID"}

\* The columns a row image is built from.  A column is its attribute
\* (attisdropped; system: attnum < 0; atttypid) and its value in the tuple
\* (isnull; external: stored out of line and not materialized; outputstr:
\* the text the type's output function yields for it).
ColumnShapes ==
    { [attisdropped |-> TRUE,  system |-> FALSE, atttypid |-> "TEXTOID",
       isnull |-> TRUE,  external |-> FALSE, outputstr |-> <<>>],
      [attisdropped |-> FALSE, system |-> TRUE,  atttypid |-> "OIDOID",
       isnull |-> FALSE, external |-> FALSE, outputstr |-> <<"7">>],
      [attisdropped |-> FALSE, system |-> FALSE, atttypid |-> "INT4OID",
       isnull |-> TRUE,  external |-> FALSE, outputstr |-> <<>>],
      [attisdropped |-> FALSE, system |-> FALSE, atttypid |-> "TEXTOID",
       isnull |-> TRUE,  external |-> FALSE, outputstr |-> <<>>],
      [attisdropped |-> FALSE, system |-> FALSE, atttypid |-> "TEXTOID",
       isnull |-> FALSE, external |-> TRUE,  outputstr |-> <<"a">>],
      [attisdropped |-> FALSE, system |-> FALSE, atttypid |-> "INT4OID",
       isnull |-> FALSE, external |-> FALSE, outputstr |-> <<"1">>],
      [attisdropped |-> FALSE, system |-> FALSE, atttypid |-> "TEXTOID",
       isnull |-> FALSE, external |-> FALSE, outputstr |-> <<"a", "\"">>] }

RECURSIVE RowsUpTo(_)
RowsUpTo(n) ==
    IF n = 0 THEN {<<>>}
    ELSE LET shorter == RowsUpTo(n - 1)
         IN  shorter \cup {Append(r, c) : r \in {x \in shorter : Len(x) = n - 1},
                                          c \in ColumnShapes}

\* The attribute at position i (from 1) of the descriptor of a row.
AttrOf(row, i) ==
    [attname      |-> ColName(i),
     attisdropped |-> row[i].attisdropped,
     attnum       |-> IF row[i].system THEN 0 - i ELSE i,
     atttypid     |-> row[i].atttypid]

\* if (attr->attisdropped) continue; if (attr->attnum < 0) continue;
AttrSkipped(attr) == attr.attisdropped \/ attr.attnum < 0

NullSkippedAlways(isnull, skip_nulls) == isnull

\* if (isnull && skip_nulls) continue;
NullSkipped(isnull, skip_nulls) == isnull /\ skip_nulls

\* if (natt > 0) appendStringInfoChar(s, ',');
CommaBefore(natt) == natt > 0

ValueBranchNoToastTest(isnull, typisvarlena, external) ==
    CASE isnull          -> "null"
      [] ~typisvarlena   -> "direct"
      [] OTHER           -> "detoast"

\* The if / else-if chain that picks how a value is rendered.
ValueBranch(isnull, typisvarlena, external) ==
    CASE isnull                   -> "null"
      [] typisvarlena /\ external -> "toast"
      [] ~typisvarlena            -> "direct"
      [] OTHER                    -> "detoast"

\* The state of tuple_to_stringinfo's loop: s, the fragments appended; read,
\* the positions fastgetattr read; fetched, the positions whose value was
\* detoasted or passed to an output function; allocs, what was allocated in
\* the current memory context; status, "ok", "error" (an ereport left the
\* function) or "segv" (a read of memory that is not a tuple faulted).
LoopStart == [s |-> <<>>, read |-> {}, fetched |-> {}, allocs |-> {}, status |-> "ok"]

\* One iteration of the loop for the attribute at C index natt.
\* tuple.vals holds the values, tuple.raiseAt the position (from 1) whose
\* detoasting or output function raises an error (0: none), tuple.dangling
\* whether the pointer is not to a tuple, and tuple.segv whether reading
\* through such a pointer faults.
LoopBody(natt, row, tuple, skip_nulls, acc) ==
    LET attr == AttrOf(row, natt + 1)
        val  == tuple.vals[natt + 1]
        sep  == IF CommaBefore(natt) THEN <<",">> ELSE <<>>
        key  == <<"\"", attr.attname, "\":">>
        branch == ValueBranch(val.isnull, TypIsVarlena(attr.atttypid), val.external)
        raises == tuple.raiseAt = natt + 1
        got  == [acc EXCEPT !.read = @ \cup {natt}]
    IN  IF AttrSkipped(attr) THEN acc
        ELSE IF tuple.dangling /\ tuple.segv
             THEN [got EXCEPT !.status = "segv"]
        ELSE IF NullSkipped(val.isnull, skip_nulls) THEN got
        ELSE CASE branch = "null" ->
                    [got EXCEPT !.s = @ \o sep \o key \o <<"null">>]
               [] branch = "toast" ->
                    [got EXCEPT !.s = @ \o sep \o key \o <<"\"???unchanged-toast-datum???\"">>]
               [] branch = "direct" ->
                    IF raises
                    THEN [got EXCEPT !.s = @ \o sep \o key,
                                     !.fetched = @ \cup {natt},
                                     !.status = "error"]
                    ELSE [got EXCEPT !.s = @ \o sep \o key
                                            \o print_literal(attr.atttypid, val.outputstr),
                                     !.fetched = @ \cup {natt},
                                     !.allocs = @ \cup {<<"outputstr", natt>>}]
               [] OTHER ->
                    IF raises
                    THEN [got EXCEPT !.s = @ \o sep \o key,
                                     !.fetched = @ \cup {natt},
                                     !.allocs = @ \cup {<<"detoasted", natt>>},
                                     !.status = "error"]
                    ELSE [got EXCEPT !.s = @ \o sep \o key
                                            \o print_literal(attr.atttypid, val.outputstr),
                                     !.fetched = @ \cup {natt},
                                     !.allocs = @ \cup {<<"detoasted", natt>>,
                                                        <<"outputstr", natt>>}]

\* for (natt = 0; natt < tupdesc->natts; natt++) ...
RECURSIVE AttLoop(_, _, _, _, _)
AttLoop(natt, row, tuple, skip_nulls, acc) ==
    IF natt >= Len(row) \/ acc.status # "ok" THEN acc
    ELSE AttLoop(natt + 1, row, tuple, skip_nulls,
                 LoopBody(natt, row, tuple, skip_nulls, acc))

tuple_to_stringinfo(row, tuple, skip_nulls) ==
    AttLoop(0, row, tuple, skip_nulls, LoopStart)

\* ------------------------------------------------------------------ state

VARIABLES
    phase,                \* where the stream is: "loaded" (callbacks registered),
                          \* "idle", "intxn", "error" (an ereport left a callback),
                          \* "crashed" (the backend faulted), "shutdown"
    xact_wrote_changes,   \* DecodingJsonData.xact_wrote_changes
    CurrentMemoryContext, \* "caller" or "scratch" (data->context)
    scratch,              \* what is allocated in data->context
    ctx,                  \* the LogicalDecodingContext: out (ctx->out), prepared_write,
                          \* and what its write interface saw: ops (the calls of the
                          \* running or last callback), written (the kinds of the objects
                          \* handed to the transport), sent (the last object handed over)
    events,               \* the kinds of the callbacks the host has made
    txn,                  \* the xid of the transaction being decoded
    change,               \* the arguments of the last row change
    tupleResult,          \* what tuple_to_stringinfo did in the last row change
    lit                   \* print_literal applied on its own: typid, outputstr, done, out

vars == <<phase, xact_wrote_changes, CurrentMemoryContext, scratch, ctx, events,
          txn, change, tupleResult, lit>>

streamVars == <<phase, xact_wrote_changes, CurrentMemoryContext, scratch, ctx, events,
                txn, change, tupleResult>>

\* ---------------------------------------------------- the write interface

\* A callback starts: the calls seen are counted from here.
Enter(c) == [c EXCEPT !.ops = <<>>]

\* OutputPluginPrepareWrite: the host empties ctx->out and notes the write
\* as prepared.
OutputPluginPrepareWrite(c) ==
    [c EXCEPT !.out = <<>>, !.prepared_write = TRUE, !.ops = Append(@, "prepare")]

\* appendStringInfo, appendStringInfoString, appendStringInfoChar on ctx->out.
AppendOut(c, text) ==
    [c EXCEPT !.out = @ \o text,
              !.ops = @ \o [i \in 1..Len(text) |-> "append"]]

\* OutputPluginWrite: the host hands ctx->out to the transport.
OutputPluginWrite(c, kind) ==
    [c EXCEPT !.prepared_write = FALSE,
              !.ops = Append(@, "write"),
              !.written = Append(@, kind),
              !.sent = c.out]

\* ------------------------------------------------------------ the callbacks

BeginWriteBeforeBuild(c, xid) ==
    AppendOut(OutputPluginWrite(OutputPluginPrepareWrite(c), "begin"), BeginText(xid))

pg_output_begin(c, xid) ==
    OutputPluginWrite(AppendOut(OutputPluginPrepareWrite(c), BeginText(xid)), "begin")

CommitSkippingEmpty(c, xid) ==
    IF xact_wrote_changes
    THEN OutputPluginWrite(AppendOut(OutputPluginPrepareWrite(c), CommitText(xid)), "commit")
    ELSE c

pg_decode_commit_txn(c, xid) ==
    OutputPluginWrite(AppendOut(OutputPluginPrepareWrite(c), CommitText(xid)), "commit")

\* The relations row changes are made on: namespace and relation name, each
\* with whether quote_identifier leaves it bare.
Relations ==
    { [nspname |-> "public", nspbare |-> TRUE,  relname |-> "orders",      relbare |-> TRUE],
      [nspname |-> "Public", nspbare |-> FALSE, relname |-> "Order Table", relbare |-> FALSE] }

\* quote_qualified_identifier(get_namespace_name(...), NameStr(relname)).
quote_qualified_identifier(rel) ==
    (IF rel.nspbare THEN <<rel.nspname>> ELSE <<"\"", rel.nspname, "\"">>)
    \o <<".">>
    \o (IF rel.relbare THEN <<rel.relname>> ELSE <<"\"", rel.relname, "\"">>)

\* The switch on change->action: the tuple the change's image is read from.
\* newtuple is always supplied; oldtuple may be NULL, and then
\* &change->data.tp.oldtuple->tuple is the address of a member of a null
\* pointer: undefined behaviour, which yields a null pointer or a pointer
\* that is not null and points to no tuple.
HeapTupleOutcomes(action, supplied) ==
    IF action = "DELETE" /\ ~supplied THEN {"null", "dangling"} ELSE {"valid"}

\* The positions (from 1) whose detoasting or output function can raise: a
\* value that is rendered by print_literal.  0: nothing raises.
RaiseChoices(row) ==
    {0} \cup { i \in 1..Len(row) :
                 /\ ~AttrSkipped(AttrOf(row, i))
                 /\ ~row[i].isnull
                 /\ ~(TypIsVarlena(row[i].atttypid) /\ row[i].external) }

\* How the tuple of a change can turn out: supplied by the host, with the
\* position that raises; or, for a DELETE, not supplied, with the pointer
\* the address computation yields and whether a read through it faults.
TupleCases(action, row) ==
    { [supplied |-> TRUE, heaptuple |-> "valid", raiseAt |-> r, segv |-> FALSE] :
        r \in RaiseChoices(row) }
    \cup
    (IF action = "DELETE"
     THEN { [supplied |-> FALSE, heaptuple |-> ptr, raiseAt |-> 0, segv |-> sg] :
              ptr \in HeapTupleOutcomes(action, FALSE), sg \in BOOLEAN }
          \ { [supplied |-> FALSE, heaptuple |-> "null", raiseAt |-> 0, segv |-> TRUE] }
     ELSE {})

\* The arguments of a row change over a set of rows, with the outcome of
\* what the C standard leaves open.
ChangesOver(rows) ==
    UNION { { [action |-> a, relation |-> rel, row |-> row, supplied |-> tc.supplied,
               heaptuple |-> tc.heaptuple, raiseAt |-> tc.raiseAt, segv |-> tc.segv] :
                tc \in TupleCases(a, row) } :
            a \in {"INSERT", "UPDATE", "DELETE"}, rel \in Relations, row \in rows }

NoChange ==
    [action |-> "NONE", relation |-> CHOOSE r \in Relations : r.nspbare, row |-> <<>>,
     supplied |-> TRUE, heaptuple |-> "valid", raiseAt |-> 0, segv |-> FALSE]

\* The envelope of a row change up to and including the change kind.
ChangeHead(ch) ==
    <<"{\"type\":\"table\",\"name\":\"">>
    \o quote_qualified_identifier(ch.relation)
    \o <<"\",\"change\":\"">> \o <<ch.action>> \o <<"\"">>

\* What get_namespace_name and quote_qualified_identifier allocate.
NameAllocs == {<<"nspname", 0>>, <<"qualified", 0>>}

\* pg_decode_change(ctx, txn, relation, change).
pg_decode_change(ch) ==
    LET tuple == [vals |-> ch.row, raiseAt |-> ch.raiseAt,
                  dangling |-> ch.heaptuple = "dangling", segv |-> ch.segv]
        c1 == AppendOut(OutputPluginPrepareWrite(Enter(ctx)), ChangeHead(ch))
        res == IF ch.heaptuple # "null"
               THEN tuple_to_stringinfo(ch.row, tuple, ch.action = "DELETE")
               ELSE LoopStart
        c2 == IF ch.heaptuple # "null"
              THEN AppendOut(AppendOut(c1, <<",\"data\":{">>), res.s)
              ELSE c1
        c3 == IF ch.heaptuple # "null" THEN AppendOut(c2, <<"}">>) ELSE c2
        c4 == AppendOut(c3, <<"}">>)
    IN  /\ xact_wrote_changes' = TRUE
        /\ change' = ch
        /\ tupleResult' = res
        /\ events' = Append(events, "change")
        /\ txn' = txn
        /\ IF res.status = "ok"
           THEN /\ CurrentMemoryContext' = "caller"
                /\ scratch' = {}
                /\ ctx' = OutputPluginWrite(c4, "change")
                /\ phase' = "intxn"
           ELSE /\ CurrentMemoryContext' = "scratch"
                /\ scratch' = NameAllocs \cup res.allocs
                /\ ctx' = c2
                /\ phase' = IF res.status = "segv" THEN "crashed" ELSE "error"

\* ---------------------------------------------------------------- actions

LitIdle == [typid |-> "INT4OID", outputstr |-> <<>>, done |-> FALSE, out |-> <<>>]

Init ==
    /\ phase = "loaded"
    /\ xact_wrote_changes = FALSE
    /\ CurrentMemoryContext = "caller"
    /\ scratch = {}
    /\ ctx = [out |-> <<>>, prepared_write |-> FALSE, ops |-> <<>>,
              written |-> <<>>, sent |-> <<>>]
    /\ events = <<>>
    /\ txn = <<0, 0>>
    /\ change = NoChange
    /\ tupleResult = LoopStart
    /\ lit = LitIdle

\* pg_decode_startup: palloc0 zeroes the flag; the scratch context is created.
Startup ==
    /\ phase = "loaded"
    /\ phase' = "idle"
    /\ xact_wrote_changes' = FALSE
    /\ scratch' = {}
    /\ UNCHANGED <<CurrentMemoryContext, ctx, events, txn, change, tupleResult, lit>>

\* pg_decode_shutdown: MemoryContextDelete(data->context).
Shutdown ==
    /\ phase = "idle"
    /\ phase' = "shutdown"
    /\ scratch' = {}
    /\ UNCHANGED <<xact_wrote_changes, CurrentMemoryContext, ctx, events, txn, change,
                   tupleResult, lit>>

\* pg_decode_begin_txn.
Begin ==
    /\ phase = "idle"
    /\ Len(events) < MaxEvents
    /\ \E xid \in Xids :
        /\ txn' = xid
        /\ ctx' = pg_output_begin(Enter(ctx), xid)
    /\ xact_wrote_changes' = FALSE
    /\ events' = Append(events, "begin")
    /\ phase' = "intxn"
    /\ UNCHANGED <<CurrentMemoryContext, scratch, change, tupleResult, lit>>

\* pg_decode_commit_txn.
Commit ==
    /\ phase = "intxn"
    /\ Len(events) < MaxEvents
    /\ ctx' = pg_decode_commit_txn(Enter(ctx), txn)
    /\ events' = Append(events, "commit")
    /\ phase' = "idle"
    /\ UNCHANGED <<xact_wrote_changes, CurrentMemoryContext, scratch, txn, change,
                   tupleResult, lit>>

\* The rows of the changes of a stream: no attribute, or one.
StreamRows == {<<>>} \cup {<<c>> : c \in ColumnShapes}

\* pg_decode_change.
Change ==
    /\ phase = "intxn"
    /\ Len(events) < MaxEvents
    /\ \E ch \in ChangesOver(StreamRows) : pg_decode_change(ch)
    /\ UNCHANGED lit

Next == Startup \/ Begin \/ Change \/ Commit \/ Shutdown

Spec == Init /\ [][Next]_vars

\* print_literal on its own: every type identifier and every output string
\* up to MaxLen characters.
InitLiteral ==
    /\ phase = "loaded"
    /\ xact_wrote_changes = FALSE
    /\ CurrentMemoryContext = "caller"
    /\ scratch = {}
    /\ ctx = [out |-> <<>>, prepared_write |-> FALSE, ops |-> <<>>,
              written |-> <<>>, sent |-> <<>>]
    /\ events = <<>>
    /\ txn = <<0, 0>>
    /\ change = NoChange
    /\ tupleResult = LoopStart
    /\ lit \in [typid : TypeOids, outputstr : StringsUpTo(MaxLen), done : {FALSE},
                out : {<<>>}]

PrintLiteral ==
    /\ ~lit.done
    /\ lit' = [lit EXCEPT !.done = TRUE, !.out = print_literal(lit.typid, lit.outputstr)]
    /\ UNCHANGED streamVars

NextLiteral == PrintLiteral

SpecLiteral == InitLiteral /\ [][NextLiteral]_vars

\* One row change on its own, in a transaction that has begun: every
\* relation, change kind and row of up to MaxAtts attributes.
InitRow ==
    /\ phase = "intxn"
    /\ xact_wrote_changes = FALSE
    /\ CurrentMemoryContext = "caller"
    /\ scratch = {}
    /\ ctx = pg_output_begin([out |-> <<>>, prepared_write |-> FALSE, ops |-> <<>>,
                              written |-> <<>>, sent |-> <<>>], <<0, 7>>)
    /\ events = <<"begin">>
    /\ txn = <<0, 7>>
    /\ change \in ChangesOver(RowsUpTo(MaxAtts))
    /\ tupleResult = LoopStart
    /\ lit = LitIdle

RowChange ==
    /\ phase = "intxn"
    /\ events = <<"begin">>
    /\ pg_decode_change(change)
    /\ UNCHANGED lit

NextRow == RowChange

SpecRow == InitRow /\ [][NextRow]_vars

\* ============================================================ properties

Last(seq) == seq[Len(seq)]

\* sub occurs in seq as a run of consecutive fragments.
Occurs(sub, seq) ==
    \E k \in 1..(Len(seq) - Len(sub) + 1) : SubSeq(seq, k, k + Len(sub) - 1) = sub

\* The last callback the host made was a row change.
AfterChange == events # <<>> /\ Last(events) = "change"

\* The last callback was a row change on a tuple the host supplied, and it
\* returned.
ChangeReturned ==
    AfterChange /\ change.heaptuple = "valid" /\ tupleResult.status = "ok"

\* The object of the last row change has a data member.
HasData ==
    /\ Len(ctx.out) > Len(ChangeHead(change))
    /\ ctx.out[Len(ChangeHead(change)) + 1] = ",\"data\":{"

\* What stands between the braces of the data member of a finished object.
DataBody == SubSeq(ctx.out, Len(ChangeHead(change)) + 2, Len(ctx.out) - 2)

\* A column that belongs to the row image: not dropped, not a system column.
InImage(col) == ~col.attisdropped /\ ~col.system

\* ---- C1

\* The field of the column at position i, as the value rules give it.
FieldOf(row, i) ==
    <<"\"", ColName(i), "\":">>
    \o (CASE row[i].isnull -> <<"null">>
          [] TypIsVarlena(row[i].atttypid) /\ row[i].external ->
               <<"\"???unchanged-toast-datum???\"">>
          [] OTHER -> print_literal(row[i].atttypid, row[i].outputstr))

\* The positions whose field is emitted, in physical order.
EmittedPositions(ch) ==
    SelectSeq([i \in 1..Len(ch.row) |-> i],
              LAMBDA i : InImage(ch.row[i]) /\ ~(ch.row[i].isnull /\ ch.action = "DELETE"))

RECURSIVE JoinFields(_, _)
JoinFields(row, positions) ==
    IF positions = <<>> THEN <<>>
    ELSE IF Len(positions) = 1 THEN FieldOf(row, positions[1])
    ELSE FieldOf(row, positions[1]) \o <<",">> \o JoinFields(row, Tail(positions))

\* C1: after every row change that returned, the body of data is exactly
\* the emitted fields in physical column order joined by single commas: no
\* comma before the first emitted field, none after the last, and nothing
\* at all when no field is emitted.
C1_DataBodyIsCommaJoinedFields ==
    ChangeReturned => DataBody = JoinFields(change.row, EmittedPositions(change))

\* ---- C2

\* C2: after every row change the data member is present when a row image
\* is available, and for a DELETE without an old-row image the object has
\* no data member and nothing was read from a tuple.
C2_DataOnlyWhenImageSupplied ==
    AfterChange =>
        /\ change.supplied => HasData
        /\ ~change.supplied =>
               /\ change.action = "DELETE"
               /\ ~HasData
               /\ tupleResult.read = {}
               /\ phase # "crashed"

\* ---- C3

\* C3: after every row change that returned, a NULL column of a DELETE does
\* not appear in data, and a NULL column of the row image of an INSERT or
\* UPDATE appears as "column":null.
C3_NullOmittedOnDeleteExplicitOtherwise ==
    ChangeReturned =>
        \A i \in 1..Len(change.row) :
            change.row[i].isnull =>
                IF change.action = "DELETE"
                THEN ~Occurs(<<ColName(i)>>, DataBody)
                ELSE InImage(change.row[i]) =>
                         Occurs(<<"\"", ColName(i), "\":", "null">>, DataBody)

C3_Witness ==
    /\ ChangeReturned
    /\ change.action = "UPDATE"
    /\ \E i \in 1..Len(change.row) :
          /\ InImage(change.row[i]) /\ change.row[i].isnull
          /\ change.row[i].atttypid = "INT4OID"
          /\ i > 1

\* ---- C5

\* A column of the row image whose value is not NULL, of variable length,
\* stored out of line and not materialized.
UnchangedToast(col) ==
    InImage(col) /\ ~col.isnull /\ TypIsVarlena(col.atttypid) /\ col.external

\* C5: in every row change on a supplied tuple, whatever the change kind,
\* the value of an unchanged out-of-line column is never detoasted nor passed
\* to an output function, and when the change returns the column's field is
\* "<col>":"???unchanged-toast-datum???" (so it is neither omitted nor null).
C5_UnchangedToastSentinel ==
    (AfterChange /\ change.heaptuple = "valid") =>
        \A i \in 1..Len(change.row) :
            UnchangedToast(change.row[i]) =>
                /\ (i - 1) \notin tupleResult.fetched
                /\ tupleResult.status = "ok" =>
                       /\ Occurs(<<"\"", ColName(i), "\":",
                                   "\"???unchanged-toast-datum???\"">>, DataBody)
                       /\ ~Occurs(<<"\"", ColName(i), "\":", "null">>, DataBody)

C5_Witness ==
    /\ ChangeReturned
    /\ change.action = "DELETE"
    /\ \E i \in 1..Len(change.row) : UnchangedToast(change.row[i])

\* ---- C4

\* A text with each double-quote character doubled and every other
\* character copied.
RECURSIVE DoubleQuotesDoubled(_)
DoubleQuotesDoubled(str) ==
    IF str = <<>> THEN <<>>
    ELSE (IF Head(str) = "\"" THEN <<"\"", "\"">> ELSE <<Head(str)>>)
         \o DoubleQuotesDoubled(Tail(str))

\* C4: for every type that is not numeric, bit-string or boolean,
\* print_literal yields the source text between double quotes with every
\* double-quote character doubled and every other character unchanged.
C4_GenericTextDoublesDoubleQuotes ==
    (lit.done /\ lit.typid \in OtherOids) =>
        lit.out = <<"\"">> \o DoubleQuotesDoubled(lit.outputstr) \o <<"\"">>

\* ---- C6

\* C6: for a boolean, print_literal yields true for the text t, false for
\* the text f and for every other text; the result is one bare word, true or
\* false, never quoted.
C6_BooleanLiteral ==
    (lit.done /\ lit.typid = "BOOLOID") =>
        /\ lit.outputstr = <<"t">> => lit.out = <<"true">>
        /\ lit.outputstr = <<"f">> => lit.out = <<"false">>
        /\ lit.outputstr \notin {<<"t">>, <<"f">>} => lit.out = <<"false">>
        /\ lit.out \in {<<"true">>, <<"false">>}

C6_Witness ==
    lit.done /\ lit.typid = "BOOLOID" /\ lit.outputstr = <<"t", "f">> /\ lit.out = <<"false">>

\* ---- C7

DigitChars == {DigitChar(d) : d \in 0..9}

DigitValue(ch) == CHOOSE d \in 0..9 : DigitChar(d) = ch

\* The 32-bit value a string of decimal digits denotes, as <<hi, lo>>; a
\* value that does not fit leaves hi above 65535.
RECURSIVE DigitsValue(_)
DigitsValue(digits) ==
    IF digits = <<>> THEN <<0, 0>>
    ELSE LET front == DigitsValue(SubSeq(digits, 1, Len(digits) - 1))
             low   == front[2] * 10 + DigitValue(Last(digits))
         IN  << front[1] * 10 + low \div 65536, low % 65536 >>

\* text is open, then the unsigned decimal string of xid, then "}.
IsXidObject(text, open, xid) ==
    /\ Len(text) >= 3
    /\ text[1] = open
    /\ Last(text) = "\"}"
    /\ LET field == SubSeq(text, 2, Len(text) - 1)
       IN  /\ \A k \in 1..Len(field) : field[k] \in DigitChars
           /\ Len(field) > 1 => field[1] # "0"
           /\ DigitsValue(field) = xid

\* C7: the object handed to the transport by the begin callback of a
\* transaction is {"type":"transaction.begin","xid":"<t>"} and the one
\* handed over by its commit callback is
\* {"type":"transaction.commit","xid":"<t>"}, <t> being the unsigned decimal
\* string of the transaction's 32-bit identifier in both.
C7_BeginCommitCarryDecimalXid ==
    /\ (events # <<>> /\ Last(events) = "begin") =>
           IsXidObject(ctx.sent, "{\"type\":\"transaction.begin\",\"xid\":\"", txn)
    /\ (events # <<>> /\ Last(events) = "commit") =>
           IsXidObject(ctx.sent, "{\"type\":\"transaction.commit\",\"xid\":\"", txn)

C7_Witness ==
    /\ events = <<"begin", "commit">>
    /\ txn = <<65535, 65535>>
    /\ ctx.sent = <<"{\"type\":\"transaction.commit\",\"xid\":\"",
                    "4", "2", "9", "4", "9", "6", "7", "2", "9", "5", "\"}">>

\* ---- C8

\* The calls of one callback: one prepare, then appends only, then one write.
OnePrepareThenOneWrite(ops) ==
    /\ Len(ops) >= 3
    /\ ops[1] = "prepare"
    /\ Last(ops) = "write"
    /\ \A k \in 2..(Len(ops) - 1) : ops[k] = "append"

\* A text that opens and closes one object.
CompleteObject(text) ==
    /\ Len(text) >= 2
    /\ text[1] \in {"{\"type\":\"transaction.begin\",\"xid\":\"",
                    "{\"type\":\"transaction.commit\",\"xid\":\"",
                    "{\"type\":\"table\",\"name\":\""}
    /\ Last(text) \in {"}", "\"}"}

\* The last callback did not return: an error was raised in it, or the
\* backend faulted.
Aborted == phase \in {"error", "crashed"}

\* C8 as claimed: every callback made, whatever its outcome, performed one
\* prepare and then one write with its appends in between, and one complete
\* object per callback has reached the transport, in callback order (a
\* backend that faulted is left aside: the claim is stated of a running one).
C8_EveryCallbackWritesOnce ==
    (events # <<>> /\ phase # "crashed") =>
        /\ OnePrepareThenOneWrite(ctx.ops)
        /\ ctx.written = events
        /\ CompleteObject(ctx.sent)

\* C8 as amended: every callback that returned performed one prepare and
\* then one write with its appends in between, the objects that reached the
\* transport are one complete object per returned callback in callback
\* order, and no write is left prepared; a callback that did not return
\* performed its prepare and appends and no write, so nothing of its event
\* reached the transport.
C8_ReturnedCallbackWritesOnce ==
    events # <<>> =>
        IF ~Aborted
        THEN /\ OnePrepareThenOneWrite(ctx.ops)
             /\ ctx.written = events
             /\ ctx.sent = ctx.out
             /\ CompleteObject(ctx.sent)
             /\ ~ctx.prepared_write
        ELSE /\ ctx.ops # <<>>
             /\ ctx.ops[1] = "prepare"
             /\ \A k \in 2..Len(ctx.ops) : ctx.ops[k] = "append"
             /\ ctx.written = SubSeq(events, 1, Len(events) - 1)
             /\ ctx.sent # ctx.out

C8_Witness ==
    /\ events = <<"begin", "commit", "begin", "change">>
    /\ ~Aborted
    /\ ctx.written = events

\* ---- C9

\* C9: after every row change, whether it returned or an error was raised
\* while a value was formatted, the scratch memory context is empty and the
\* caller's memory context is the current one (a backend that faulted is
\* left aside: it has no memory contexts any more).
C9_ScratchResetOnEveryExit ==
    (AfterChange /\ phase # "crashed") =>
        (scratch = {} /\ CurrentMemoryContext = "caller")

\* ---- C10

\* The position of the last begin among the callbacks made (0: none).
LastBegin ==
    IF \E k \in 1..Len(events) : events[k] = "begin"
    THEN CHOOSE k \in 1..Len(events) :
             events[k] = "begin" /\ \A j \in (k + 1)..Len(events) : events[j] # "begin"
    ELSE 0

\* C10: once the stream has started, the flag is true exactly when a row
\* change has been decoded since the last begin (so it is false right after
\* a begin, true after a row change, and a commit leaves it as it was), and
\* begin, commit and a row change that returns hand their object to the
\* transport whether the flag is true or false.
C10_FlagTracksChangesOutputIgnoresIt ==
    phase # "loaded" =>
        /\ xact_wrote_changes =
               (\E k \in (LastBegin + 1)..Len(events) : events[k] = "change")
        /\ (events # <<>> /\ Last(events) = "begin") =>
               (ctx.written = events /\ ctx.sent = BeginText(txn))
        /\ (events # <<>> /\ Last(events) = "commit") =>
               (ctx.written = events /\ ctx.sent = CommitText(txn))
        /\ (AfterChange /\ ~Aborted) =>
               (ctx.written = events /\ ctx.sent[1] = "{\"type\":\"table\",\"name\":\"")

C10_Witness ==
    /\ events = <<"begin", "change", "commit", "begin">>
    /\ ~xact_wrote_changes
    /\ ctx.written = events

====
